---- MODULE Spec2Model ----
(***************************************************************************)
(* A model of the boto3-examples scripts: the three example orchestrators  *)
(* (examples/test_connection.py, examples/simple_s3_operations.py,        *)
(* examples/s3_bucket_lifecycle.py) run against a storage backend that     *)
(* stores what it is given and may fail any request, and the runner        *)
(* (run_all_examples.py) that launches them as subprocesses.               *)
(*                                                                         *)
(* One orchestrator run is one behaviour of Spec: Init draws the script,   *)
(* its command line, the environment and the backend's initial contents;   *)
(* every action is one statement (or one SDK request) of the script.       *)
(* The AWS region argument only changes a request parameter of             *)
(* create_bucket and is not part of the state.                             *)
(***************************************************************************)
EXTENDS Integers, Sequences, FiniteSets, TLC

(***************************************************************************)
(* Bounds of the model.                                                    *)
(***************************************************************************)
\* Object keys the test bucket can hold: 1..NumKeys.
NumKeys == 2
\* Longest file content, in bytes.
MaxLen == 1
\* SDK requests that the environment makes fail in one run.
MaxFaults == 2

Keys == 1..NumKeys
Bytes == {0, 1}
Contents == UNION {[1..n -> Bytes] : n \in 0..MaxLen}

\* An optional value is a sequence of length 0 (absent) or 1.
None == <<>>
Some(v) == <<v>>

Scripts == {"test_connection", "simple_s3_operations", "s3_bucket_lifecycle"}

\* Credential profiles: "" stands for "not given"; "good" is configured locally, "bad" is not.
KnownProfiles == {"good"}
ProfileNames == {"", "good", "bad"}

\* What one SDK request can end with: "ok", a ClientError (named by its error
\* code) or an exception that is not a ClientError ("Error": an
\* EndpointConnectionError, a WaiterError, an S3UploadFailedError, ...).
ClientErrorCodes == {"BucketAlreadyExists", "BucketAlreadyOwnedByYou", "AccessDenied",
                     "NoSuchBucket", "NoSuchKey", "BucketNotEmpty"}
IsClientError(o) == o \in ClientErrorCodes
\* What the environment can inject into a request: nothing, a ClientError, another exception.
Faults == {"none", "AccessDenied", "Error"}

VARIABLES
    script,       \* which orchestrator this run is
    argProfile,   \* --profile ("" when absent)
    envProfile,   \* AWS_PROFILE ("" when unset)
    listProfiles, \* --list-profiles (test_connection only)
    pc,           \* position in main
    session,      \* "unset", "None", or the profile the session was made for ("default")
    reported,     \* get_boto3_session printed "AWS profile not found"
    exitCode,     \* the process exit code; -1 while running
    uncaught,     \* the exception that left main: "none", "Error", "KeyboardInterrupt", "SystemExit"
    pending,      \* an exception on its way out while a finally block runs
    calls,        \* every SDK call issued so far, in order, with its outcome
    faults,       \* requests the environment has made fail so far
    bucket,       \* the test bucket's name at the service: "absent", "mine", "other"
    objs,         \* the test bucket's objects: key -> optional content
    testFile,     \* the local test file: optional content
    testContent,  \* what the script writes into the test file
    dlFile,       \* the local downloaded file: optional content
    intAt,        \* where the user's interrupt arrived: "none", "pre", "try", "finally"
    created,      \* create_bucket's return value: "unset", "True", "False"
    objects,      \* main's `objects`: the result of list_objects
    mpc,          \* position inside S3Manager.delete_bucket: "idle", "del", "req", "wait"
    dbTodo,       \* delete_bucket: the listed keys still to delete
    dbResult,     \* delete_bucket's last outcome: "unset", "True", "False", "raised"
    existsRet,    \* bucket_exists's last return value: "unset", "True", "False"
    dbListed,     \* delete_bucket: its local `objects`, the listing it got
    dbHad,        \* delete_bucket: the keys the bucket held when it was listed
    finExists,    \* the emergency cleanup's bucket_exists: "unset", "True", "False", "raised"
    bucketList,   \* what the last S3Manager.list_buckets returned
    propagated,   \* the S3Manager operations that let an exception out to their caller
    stepFailed,   \* steps of the demonstration sequence that reported failure
    sizesMatch,   \* the download verification's verdict: "unset", "match", "differ"
    rpc,          \* runner: position in main
    idx,          \* runner: index of the current example
    results,      \* runner: the `results` list (success flags)
    outcomes,     \* runner: what happened to each example launched so far
    running,      \* runner: the examples whose subprocess is running
    trace,        \* runner: events in order ("run", i), ("end", i), ("pause", i)
    successful,   \* runner: the tally
    allOk,        \* runner: which summary branch was taken: "unset", "all", "some_failed"
    rExit,        \* runner: exit code; -1 while running
    spc,          \* setup: the stage main is at
    runNo,        \* setup: which run of the script this is
    pythonOk,     \* setup: the interpreter is Python 3.8 or higher
    venv,         \* setup: the .venv path: "absent", "ok", or "broken" (exists, no executables)
    pipUpgraded,  \* setup: pip inside .venv has been upgraded
    packages,     \* setup: the packages installed in .venv
    envFile,      \* setup: content of .env, or None
    envExample,   \* setup: content of .env.example, or None
    pkgIdx,       \* setup: position of install_dependencies's loop in its package list
    stages,       \* setup: this run's stages of main, in the order they started
    commands,     \* setup: this run's run_command calls with their outcome
    setupExit,    \* setup: exit code; -1 while running
    atStart,      \* setup: .venv, .env and .env.example as this run found them
    prev          \* setup: how the previous run ended and what it left

orchVars == <<script, argProfile, envProfile, listProfiles, pc, session, reported,
              exitCode, uncaught, pending, calls, faults, bucket, objs, testFile,
              testContent, dlFile, intAt, created, objects, mpc, dbTodo, dbResult,
              existsRet, dbListed, dbHad, finExists, bucketList, propagated,
              stepFailed, sizesMatch>>
runnerVars == <<rpc, idx, results, outcomes, running, trace, successful, allOk, rExit>>
setupVars == <<spc, runNo, pythonOk, venv, pipUpgraded, packages, envFile, envExample,
               pkgIdx, stages, commands, setupExit, atStart, prev>>
vars == <<orchVars, runnerVars, setupVars>>

inputVars == <<script, argProfile, envProfile, listProfiles, testContent>>
storeVars == <<bucket, objs>>
fileVars == <<testFile, dlFile>>
\* what the S3Manager calls of the lifecycle script leave behind
dbVars == <<dbTodo, dbResult, dbListed, dbHad>>
mgrVars == <<created, objects, existsRet, finExists, sizesMatch>>
procVars == <<session, reported, exitCode, uncaught>>

\* One entry of the call log: the SDK call, the object key it names (0: none)
\* and how it ended.
Call(op, k, o) == [op |-> op, key |-> k, out |-> o]

\* The environment may make a request fail while its fault budget lasts.
CanInject(f) == f = "none" \/ faults < MaxFaults
Injected(f) == IF f = "none" THEN faults ELSE faults + 1

\* A request's outcome: the injected fault, or else what the backend answers.
Outcome(f, natural) == IF f = "none" THEN natural ELSE f

(***************************************************************************)
(* The session/credential resolver, one copy per script.                   *)
(* boto3.Session(profile_name=p) raises ProfileNotFound when p is not a    *)
(* configured profile. An empty or absent name is falsy in Python.         *)
(***************************************************************************)
\* A resolver that reports the unknown profile and goes on with the default credentials.
SessionForFallback(p) ==
    [session |-> IF p \in KnownProfiles THEN p ELSE "default",
     reported |-> p \notin KnownProfiles]

SessionFor(p) ==
    IF p \in KnownProfiles THEN [session |-> p, reported |-> FALSE]
    ELSE [session |-> "None", reported |-> TRUE]

get_boto3_session_test_connection(profile_name, env_profile) ==
    IF profile_name # "" THEN SessionFor(profile_name)
    ELSE IF env_profile # "" THEN SessionFor(env_profile)
    ELSE [session |-> "default", reported |-> FALSE]

\* A resolver copy that lets the environment variable win over the argument.
get_boto3_session_env_first(profile_name, env_profile) ==
    IF env_profile # "" THEN SessionFor(env_profile)
    ELSE IF profile_name # "" THEN SessionFor(profile_name)
    ELSE [session |-> "default", reported |-> FALSE]

get_boto3_session_simple(profile_name, env_profile) ==
    IF profile_name # "" THEN SessionFor(profile_name)
    ELSE IF env_profile # "" THEN SessionFor(env_profile)
    ELSE [session |-> "default", reported |-> FALSE]

get_boto3_session_lifecycle(profile_name, env_profile) ==
    IF profile_name # "" THEN SessionFor(profile_name)
    ELSE IF env_profile # "" THEN SessionFor(env_profile)
    ELSE [session |-> "default", reported |-> FALSE]

get_boto3_session(s, profile_name, env_profile) ==
    CASE s = "test_connection" -> get_boto3_session_test_connection(profile_name, env_profile)
      [] s = "simple_s3_operations" -> get_boto3_session_simple(profile_name, env_profile)
      [] OTHER -> get_boto3_session_lifecycle(profile_name, env_profile)

(***************************************************************************)
(* The storage backend: what each request answers and does when no fault   *)
(* is injected. It stores what it is given.                                *)
(***************************************************************************)
KeysIn(o) == {k \in Keys : o[k] # None}

\* The keys of a set in ascending order, as list_objects_v2 returns them.
RECURSIVE SortedSeq(_)
SortedSeq(S) ==
    IF S = {} THEN <<>>
    ELSE LET m == CHOOSE x \in S : \A y \in S : x <= y
         IN <<m>> \o SortedSeq(S \ {m})

SeqToSet(q) == {q[i] : i \in 1..Len(q)}

S3CreateBucket(b) ==
    CASE b = "absent" -> "ok"
      [] b = "mine" -> "BucketAlreadyOwnedByYou"
      [] OTHER -> "BucketAlreadyExists"

S3HeadBucket(b) == IF b = "mine" THEN "ok" ELSE "NoSuchBucket"
S3ListObjects(b) == IF b = "mine" THEN "ok" ELSE "NoSuchBucket"
S3PutObject(b) == IF b = "mine" THEN "ok" ELSE "NoSuchBucket"
S3GetObject(b, o, k) ==
    IF b # "mine" THEN "NoSuchBucket" ELSE IF o[k] = None THEN "NoSuchKey" ELSE "ok"
S3DeleteObject(b) == IF b = "mine" THEN "ok" ELSE "NoSuchBucket"
S3DeleteBucket(b, o) ==
    IF b # "mine" THEN "NoSuchBucket" ELSE IF KeysIn(o) # {} THEN "BucketNotEmpty" ELSE "ok"
\* list_buckets answers with the caller's buckets.
S3ListBuckets(b) == IF b = "mine" THEN <<"test-bucket">> ELSE <<>>

EmptyBucket == [k \in Keys |-> None]


(***************************************************************************)
(* Which exceptions each guarded operation catches (its except clauses).   *)
(***************************************************************************)
ExcClass(o) == IF IsClientError(o) THEN "ClientError" ELSE o

ExceptClauses(method) ==
    CASE method = "create_bucket" -> {"ClientError", "Exception"}
      [] method = "upload_file" -> {"FileNotFoundError", "ClientError"}
      [] method \in {"list_buckets", "list_objects", "download_file", "delete_object",
                     "delete_bucket", "bucket_exists"} -> {"ClientError"}
      [] method = "test_credentials" ->
            {"NoCredentialsError", "PartialCredentialsError", "ClientError"}
      [] method \in {"list_s3_buckets", "list_ec2_regions"} -> {"ClientError"}
      [] OTHER -> {}

\* Whether `method` handles the failed outcome o of its SDK call itself.
Caught(method, o) ==
    \/ "Exception" \in ExceptClauses(method)
    \/ ExcClass(o) \in ExceptClauses(method)

(***************************************************************************)
(* Initial states: a script, its command line and environment, the test    *)
(* bucket name as the service knows it before the run (free, owned by the  *)
(* caller with some objects, or owned by someone else), the file content.  *)
(***************************************************************************)
OldContent == <<0>>

OrchInit ==
    /\ script \in Scripts
    /\ argProfile \in ProfileNames
    /\ envProfile \in ProfileNames
    /\ listProfiles \in (IF script = "test_connection" THEN BOOLEAN ELSE {FALSE})
    /\ pc = "start"
    /\ session = "unset"
    /\ reported = FALSE
    /\ exitCode = -1
    /\ uncaught = "none"
    /\ pending = "none"
    /\ calls = <<>>
    /\ faults = 0
    /\ bucket \in (IF script = "test_connection" THEN {"absent"}
                   ELSE {"absent", "mine", "other"})
    /\ objs \in (IF bucket = "mine"
                 THEN {[k \in Keys |-> IF k \in S THEN Some(OldContent) ELSE None] :
                         S \in SUBSET Keys}
                 ELSE {EmptyBucket})
    /\ testFile = None
    /\ testContent \in (IF script = "test_connection" THEN {<<>>} ELSE Contents)
    /\ dlFile = None
    /\ intAt = "none"
    /\ created = "unset"
    /\ objects = <<>>
    /\ mpc = "idle"
    /\ dbTodo = <<>>
    /\ dbResult = "unset"
    /\ existsRet = "unset"
    /\ dbListed = <<>>
    /\ dbHad = {}
    /\ finExists = "unset"
    /\ bucketList = <<>>
    /\ propagated = {}
    /\ stepFailed = {}
    /\ sizesMatch = "unset"

\* No orchestrator in this process (the runner's specification).
OrchIdle ==
    /\ script = "none" /\ argProfile = "" /\ envProfile = "" /\ listProfiles = FALSE
    /\ pc = "done" /\ session = "unset" /\ reported = FALSE /\ exitCode = -1
    /\ uncaught = "none" /\ pending = "none" /\ calls = <<>> /\ faults = 0
    /\ bucket = "absent" /\ objs = EmptyBucket /\ testFile = None /\ testContent = <<>>
    /\ dlFile = None /\ intAt = "none" /\ created = "unset" /\ objects = <<>>
    /\ mpc = "idle" /\ dbTodo = <<>> /\ dbResult = "unset" /\ existsRet = "unset"
    /\ dbListed = <<>> /\ dbHad = {} /\ finExists = "unset" /\ bucketList = <<>>
    /\ propagated = {} /\ stepFailed = {} /\ sizesMatch = "unset"

\* No runner in this process (the orchestrators' specification).
RunnerIdle ==
    /\ rpc = "done" /\ idx = 0 /\ results = <<>> /\ outcomes = <<>> /\ running = {}
    /\ trace = <<>> /\ successful = 0 /\ allOk = "unset" /\ rExit = -1

\* What a run of setup.py leaves behind.
Left(code) ==
    [exit |-> code, venv |-> venv, pipUpgraded |-> pipUpgraded, packages |-> packages,
     envFile |-> envFile]

\* No setup script in this process (the other specifications).
SetupIdle ==
    /\ spc = "done" /\ runNo = 0 /\ pythonOk = TRUE /\ venv = "absent"
    /\ pipUpgraded = FALSE /\ packages = {} /\ envFile = None /\ envExample = None
    /\ pkgIdx = 0 /\ stages = <<>> /\ commands = <<>> /\ setupExit = -1
    /\ atStart = [venv |-> "absent", envFile |-> None, envExample |-> None]
    /\ prev = Left(-1)

(***************************************************************************)
(* Steps common to the three scripts.                                      *)
(***************************************************************************)
\* Everything an action of the scripts leaves alone unless it says otherwise
\* (pc and the process variables are set by Goto and Exit).
Frame(changed) ==
    /\ UNCHANGED <<inputVars, runnerVars, setupVars>>
    /\ IF "pending" \in changed THEN TRUE ELSE UNCHANGED pending
    /\ IF "mpc" \in changed THEN TRUE ELSE UNCHANGED mpc
    /\ IF "calls" \in changed THEN TRUE ELSE UNCHANGED <<calls, faults>>
    /\ IF "bucket" \in changed THEN TRUE ELSE UNCHANGED bucket
    /\ IF "objs" \in changed THEN TRUE ELSE UNCHANGED objs
    /\ IF "testFile" \in changed THEN TRUE ELSE UNCHANGED testFile
    /\ IF "dlFile" \in changed THEN TRUE ELSE UNCHANGED dlFile
    /\ IF "intAt" \in changed THEN TRUE ELSE UNCHANGED intAt
    /\ IF "db" \in changed THEN TRUE ELSE UNCHANGED dbVars
    /\ IF "created" \in changed THEN TRUE ELSE UNCHANGED created
    /\ IF "objects" \in changed THEN TRUE ELSE UNCHANGED objects
    /\ IF "existsRet" \in changed THEN TRUE ELSE UNCHANGED existsRet
    /\ IF "fin" \in changed THEN TRUE ELSE UNCHANGED finExists
    /\ IF "sizesMatch" \in changed THEN TRUE ELSE UNCHANGED sizesMatch
    /\ IF "bucketList" \in changed THEN TRUE ELSE UNCHANGED bucketList
    /\ IF "propagated" \in changed THEN TRUE ELSE UNCHANGED propagated
    /\ IF "stepFailed" \in changed THEN TRUE ELSE UNCHANGED stepFailed

\* The process ends: its exit code, and the exception (if any) that ended it.
Exit(code, exc) ==
    /\ pc' = "done"
    /\ exitCode' = code
    /\ uncaught' = exc
    /\ UNCHANGED <<session, reported>>

Goto(label) ==
    /\ pc' = label
    /\ UNCHANGED procVars

Running == pc # "done"

\* One SDK call under fault f: it is logged with its outcome.
Issue(op, key, f, natural) ==
    /\ CanInject(f)
    /\ faults' = Injected(f)
    /\ calls' = Append(calls, Call(op, key, Outcome(f, natural)))

ParseArgs ==
    /\ pc = "start"
    /\ Goto(IF script = "test_connection" /\ listProfiles THEN "list_profiles" ELSE "session")
    /\ Frame({})

\* session = get_boto3_session(args.profile); if not session: ...
\* test_connection and s3_bucket_lifecycle call sys.exit(1); simple_s3_operations returns.
NoSessionExitCode(s) == IF s = "simple_s3_operations" THEN 0 ELSE 1

AfterSession(s) ==
    CASE s = "test_connection" -> "tc_creds"
      [] s = "simple_s3_operations" -> "s_client"
      [] OTHER -> "l_init"

GetSession ==
    /\ pc = "session"
    /\ LET r == get_boto3_session(script, argProfile, envProfile)
       IN /\ session' = r.session
          /\ reported' = r.reported
          /\ pc' = IF r.session = "None" THEN "done" ELSE AfterSession(script)
          /\ exitCode' = IF r.session = "None" THEN NoSessionExitCode(script) ELSE exitCode
          /\ uncaught' = IF r.session = "None" /\ NoSessionExitCode(script) # 0
                         THEN "SystemExit" ELSE uncaught
    /\ Frame({})

(***************************************************************************)
(* examples/test_connection.py                                             *)
(***************************************************************************)
\* --list-profiles: boto3.Session().available_profiles, then return.
TC_ListProfiles ==
    /\ pc = "list_profiles"
    /\ Exit(0, "none")
    /\ Frame({})

CredFaults == {"none", "NoCredentialsError", "PartialCredentialsError", "AccessDenied", "Error"}

\* test_credentials(session) and main's check of its result: sys.exit(1)
\* when it returns False; an exception it does not catch ends the process.
TC_TestCredentials ==
    /\ pc = "tc_creds"
    /\ \E f \in CredFaults :
        /\ CanInject(f)
        /\ faults' = Injected(f)
        /\ calls' = calls \o <<Call("sts.client", 0, "ok"),
                               Call("sts.get_caller_identity", 0, Outcome(f, "ok"))>>
        /\ IF f = "none" THEN Goto("tc_s3")
           ELSE IF Caught("test_credentials", f) THEN Exit(1, "SystemExit")
           ELSE Exit(1, "Error")
    /\ Frame({"calls"})

\* list_s3_buckets(session) and list_ec2_regions(session): print only.
TC_List(at, method, client, op, next) ==
    /\ pc = at
    /\ \E f \in Faults :
        /\ CanInject(f)
        /\ faults' = Injected(f)
        /\ calls' = calls \o <<Call(client, 0, "ok"), Call(op, 0, Outcome(f, "ok"))>>
        /\ IF f = "none" \/ Caught(method, f) THEN Goto(next) ELSE Exit(1, "Error")
        /\ stepFailed' = IF f # "none" /\ Caught(method, f)
                         THEN stepFailed \cup {method} ELSE stepFailed
    /\ Frame({"calls", "stepFailed"})

TC_ListS3Buckets ==
    TC_List("tc_s3", "list_s3_buckets", "s3.client", "s3.list_buckets", "tc_ec2")
TC_ListEc2Regions ==
    TC_List("tc_ec2", "list_ec2_regions", "ec2.client", "ec2.describe_regions", "tc_end")

TC_End ==
    /\ pc = "tc_end"
    /\ Exit(0, "none")
    /\ Frame({})

(***************************************************************************)
(* examples/simple_s3_operations.py                                        *)
(***************************************************************************)
\* The object key both scripts use for the test file: "test-file.txt" in
\* simple_s3_operations, the temporary file's base name in s3_bucket_lifecycle.
TestKey == 1

\* s3 = session.client('s3'), guarded by except Exception: return.
S_Client ==
    /\ pc = "s_client"
    /\ \E f \in {"none", "Error"} :
        /\ Issue("s3.client", 0, f, "ok")
        /\ IF f = "none" THEN Goto("s_create") ELSE Exit(0, "none")
    /\ Frame({"calls"})

\* One SDK request of the try block: any failure is caught by main's
\* except ClientError / except Exception, and control goes to the finally block.
S_Request(at, op, key, natural, next) ==
    /\ pc = at
    /\ \E f \in Faults :
        /\ Issue(op, key, f, natural)
        /\ Goto(IF Outcome(f, natural) = "ok" THEN next ELSE "s_finally")
        /\ stepFailed' = IF Outcome(f, natural) = "ok" THEN stepFailed
                         ELSE stepFailed \cup {op}

\* Whether the request just issued succeeded.
LastOk == calls'[Len(calls')].out = "ok"

S_CreateBucket ==
    /\ S_Request("s_create", "s3.create_bucket", 0, S3CreateBucket(bucket), "s_mkfile")
    /\ bucket' = IF LastOk THEN "mine" ELSE bucket
    /\ objs' = IF LastOk THEN EmptyBucket ELSE objs
    /\ Frame({"calls", "stepFailed", "bucket", "objs"})

\* with tempfile.NamedTemporaryFile(mode='w', suffix='.txt', delete=False) as f: ...
S_CreateTestFile ==
    /\ pc = "s_mkfile"
    /\ testFile' = Some(testContent)
    /\ Goto("s_upload")
    /\ Frame({"testFile"})

S_Upload ==
    /\ S_Request("s_upload", "s3.upload_file", TestKey, S3PutObject(bucket), "s_list_buckets")
    /\ objs' = IF LastOk THEN [objs EXCEPT ![TestKey] = testFile] ELSE objs
    /\ Frame({"calls", "stepFailed", "objs"})

S_ListBuckets ==
    /\ S_Request("s_list_buckets", "s3.list_buckets", 0, "ok", "s_list_objects")
    /\ Frame({"calls", "stepFailed"})

S_ListObjects ==
    /\ S_Request("s_list_objects", "s3.list_objects_v2", 0, S3ListObjects(bucket), "s_download")
    /\ Frame({"calls", "stepFailed"})

\* s3.download_file(...), then the comparison of the content with test_content.
S_Download ==
    /\ S_Request("s_download", "s3.download_file", TestKey,
                 S3GetObject(bucket, objs, TestKey), "s_delete_object")
    /\ dlFile' = IF LastOk THEN objs[TestKey] ELSE dlFile
    /\ sizesMatch' = IF ~LastOk THEN sizesMatch
                     ELSE IF objs[TestKey] = Some(testContent) THEN "match" ELSE "differ"
    /\ Frame({"calls", "stepFailed", "dlFile", "sizesMatch"})

S_DeleteObject ==
    /\ S_Request("s_delete_object", "s3.delete_object", TestKey,
                 S3DeleteObject(bucket), "s_delete_bucket")
    /\ objs' = IF LastOk THEN [objs EXCEPT ![TestKey] = None] ELSE objs
    /\ Frame({"calls", "stepFailed", "objs"})

S_DeleteBucket ==
    /\ S_Request("s_delete_bucket", "s3.delete_bucket", 0,
                 S3DeleteBucket(bucket, objs), "s_finally")
    /\ bucket' = IF LastOk THEN "absent" ELSE bucket
    /\ objs' = IF LastOk THEN EmptyBucket ELSE objs
    /\ Frame({"calls", "stepFailed", "bucket", "objs"})

\* The exit code once the finally block is done: an interrupt that arrived
\* in the try block is still on its way out; anything else was handled.
\* An exit code that reflects the failed steps.
SFinalExitOnFailure(p) ==
    IF p = "KeyboardInterrupt" THEN 130 ELSE IF stepFailed = {} THEN 0 ELSE 1

SFinalExit(p) == IF p = "KeyboardInterrupt" THEN 130 ELSE 0

\* finally: remove the local files.
S_Finally ==
    /\ pc = "s_finally"
    /\ testFile' = None
    /\ dlFile' = None
    /\ Exit(SFinalExit(pending), pending)
    /\ Frame({"testFile", "dlFile"})

(***************************************************************************)
(* examples/s3_bucket_lifecycle.py                                         *)
(***************************************************************************)
LPreLabels == {"start", "session", "l_init", "l_mkfile"}
LTryLabels == {"l_list_before", "l_create", "l_create_wait", "l_verify_list", "l_upload",
               "l_list_objs", "l_download", "l_delete_obj", "l_list_remaining",
               "l_delete_bucket", "l_verify_deleted", "l_final_list"}
LFinallyLabels == {"l_fin_rm_test", "l_fin_rm_dl", "l_fin_exists", "l_fin_delete", "l_end"}

\* Leaving the try block for the finally block, with the exception (if any)
\* that is still on its way out: "none" once an except clause has handled it.
ToFinally(exc) ==
    /\ Goto("l_fin_rm_test")
    /\ pending' = exc
    /\ mpc' = "idle"

\* An exception leaves the S3Manager operations `methods`, called at `at`: it
\* lands in main's except Exception (then finally) or, in the emergency
\* cleanup, in the cleanup's own except Exception.
Raise(methods, at) ==
    /\ propagated' = propagated \cup methods
    /\ IF at \in LTryLabels
       THEN ToFinally("none")
       ELSE Goto("l_end") /\ mpc' = "idle" /\ UNCHANGED pending

\* An S3Manager operation returns to main, which goes on at `next`.
Return(next) ==
    /\ Goto(next)
    /\ UNCHANGED <<pending, mpc, propagated>>

\* The operation reported a failure (printed it and returned False or []).
Failed(method, o) ==
    stepFailed' = IF o = "ok" THEN stepFailed ELSE stepFailed \cup {method}

\* S3Manager.__init__: client and resource creation; any exception ends in sys.exit(1).
L_Init ==
    /\ pc = "l_init"
    /\ \E f \in {"none", "Error"} :
        /\ CanInject(f)
        /\ faults' = Injected(f)
        /\ calls' = IF f = "none"
                    THEN calls \o <<Call("s3.client", 0, "ok"), Call("s3.resource", 0, "ok")>>
                    ELSE Append(calls, Call("s3.client", 0, f))
        /\ IF f = "none" THEN Goto("l_mkfile") ELSE Exit(1, "SystemExit")
    /\ Frame({"calls"})

\* create_test_file()
L_CreateTestFile ==
    /\ pc = "l_mkfile"
    /\ testFile' = Some(testContent)
    /\ Goto("l_list_before")
    /\ Frame({"testFile"})

\* list_buckets's return value: the names of the caller's buckets, [] on a ClientError.
list_buckets_return(o, b) == IF o = "ok" THEN S3ListBuckets(b) ELSE <<>>

\* S3Manager.list_buckets(), at its three call sites; main only prints the result.
L_ListBuckets(at, next) ==
    /\ pc = at
    /\ \E f \in Faults :
        /\ Issue("s3.list_buckets", 0, f, "ok")
        /\ IF f = "none" \/ Caught("list_buckets", f)
           THEN /\ Return(next)
                /\ Failed("list_buckets", f)
                /\ bucketList' = list_buckets_return(Outcome(f, "ok"), bucket)
           ELSE Raise({"list_buckets"}, at) /\ UNCHANGED <<stepFailed, bucketList>>
    /\ Frame({"calls", "pending", "mpc", "propagated", "stepFailed", "bucketList"})

L_ListBefore == L_ListBuckets("l_list_before", "l_create")
L_VerifyList == L_ListBuckets("l_verify_list", "l_upload")
L_FinalList == L_ListBuckets("l_final_list", "l_fin_rm_test")

\* create_bucket's return value when its request or its wait failed with o.
\* A create_bucket that takes every "already exists" answer for success.
create_bucket_return_any_exists(o) ==
    IF o \in {"BucketAlreadyOwnedByYou", "BucketAlreadyExists"} THEN "True" ELSE "False"

create_bucket_return(o) == IF o = "BucketAlreadyOwnedByYou" THEN "True" ELSE "False"

\* A main that goes on whatever create_bucket returned.
AfterCreateGoOn(r) ==
    /\ created' = r
    /\ Goto("l_verify_list")
    /\ UNCHANGED <<pending, mpc, propagated, stepFailed>>

\* main, after create_bucket returned r: go on, or print and sys.exit(1),
\* which leaves through the finally block.
AfterCreate(r) ==
    /\ created' = r
    /\ UNCHANGED propagated
    /\ IF r = "True"
       THEN Goto("l_verify_list") /\ UNCHANGED <<pending, mpc, stepFailed>>
       ELSE ToFinally("SystemExit") /\ stepFailed' = stepFailed \cup {"create_bucket"}

\* S3Manager.create_bucket: the create_bucket request.
L_CreateBucket ==
    /\ pc = "l_create"
    /\ \E f \in Faults :
        /\ Issue("s3.create_bucket", 0, f, S3CreateBucket(bucket))
        /\ LET o == Outcome(f, S3CreateBucket(bucket))
           IN IF o = "ok"
              THEN /\ bucket' = "mine"
                   /\ objs' = EmptyBucket
                   /\ Goto("l_create_wait")
                   /\ UNCHANGED <<created, pending, mpc, propagated, stepFailed>>
              ELSE /\ AfterCreate(create_bucket_return(o))
                   /\ UNCHANGED storeVars
    /\ Frame({"calls", "bucket", "objs", "created", "pending", "mpc", "propagated",
              "stepFailed"})

\* S3Manager.create_bucket: the bucket_exists waiter, then return True.
L_CreateBucketWait ==
    /\ pc = "l_create_wait"
    /\ \E f \in {"none", "Error"} :
        /\ Issue("s3.wait_bucket_exists", 0, f, "ok")
        /\ AfterCreate(IF f = "none" THEN "True" ELSE create_bucket_return(f))
    /\ Frame({"calls", "created", "pending", "mpc", "propagated", "stepFailed"})

\* The key upload_file stores under (the base name of the local path) and the
\* key main downloads and deletes (test_file_name).
UploadKey == TestKey

\* A download of another key than the one uploaded.
DownloadOtherKey == TestKey + 1

DownloadKey == TestKey

\* What the upload ends with when no fault is injected.
UploadNatural == IF testFile = None THEN "FileNotFoundError" ELSE S3PutObject(bucket)

\* S3Manager.upload_file(bucket_name, test_file_path)
L_Upload ==
    /\ pc = "l_upload"
    /\ \E f \in Faults :
        /\ Issue("s3.upload_file", UploadKey, f, UploadNatural)
        /\ LET o == Outcome(f, UploadNatural)
           IN /\ objs' = IF o = "ok" THEN [objs EXCEPT ![UploadKey] = testFile] ELSE objs
              /\ IF o = "ok" \/ Caught("upload_file", o)
                 THEN Return("l_list_objs") /\ Failed("upload_file", o)
                 ELSE Raise({"upload_file"}, "l_upload") /\ UNCHANGED stepFailed
    /\ Frame({"calls", "objs", "pending", "mpc", "propagated", "stepFailed"})

\* A list_objects that returns the keys whatever the request's outcome.
list_objects_return_keys(o, ob) == SortedSeq(KeysIn(ob))

\* What list_objects returns for outcome o of list_objects_v2 on contents ob.
list_objects_return(o, ob) == IF o = "ok" THEN SortedSeq(KeysIn(ob)) ELSE <<>>

\* S3Manager.list_objects(bucket_name) called from main: step 5 keeps the
\* result in `objects`, step 8 only prints.
L_ListObjects(at, next, keep) ==
    /\ pc = at
    /\ \E f \in Faults :
        /\ Issue("s3.list_objects_v2", 0, f, S3ListObjects(bucket))
        /\ LET o == Outcome(f, S3ListObjects(bucket))
           IN IF o = "ok" \/ Caught("list_objects", o)
              THEN /\ Return(next)
                   /\ Failed("list_objects", o)
                   /\ objects' = IF keep THEN list_objects_return(o, objs) ELSE objects
              ELSE Raise({"list_objects"}, at) /\ UNCHANGED <<objects, stepFailed>>
    /\ Frame({"calls", "objects", "pending", "mpc", "propagated", "stepFailed"})

L_ListObjs == L_ListObjects("l_list_objs", "l_download", TRUE)
L_ListRemaining == L_ListObjects("l_list_remaining", "l_delete_bucket", FALSE)

\* main's download verification: the sizes of the two files.
SizeVerdict(download, original) ==
    IF Len(download[1]) = Len(original[1]) THEN "match" ELSE "differ"

\* Step 6: if objects and s3_manager.download_file(...): compare the sizes.
L_Download ==
    /\ pc = "l_download"
    /\ objects # <<>>
    /\ \E f \in Faults :
        /\ Issue("s3.download_file", DownloadKey, f, S3GetObject(bucket, objs, DownloadKey))
        /\ LET o == Outcome(f, S3GetObject(bucket, objs, DownloadKey))
           IN /\ dlFile' = IF o = "ok" THEN objs[DownloadKey] ELSE dlFile
              /\ sizesMatch' = IF o = "ok" THEN SizeVerdict(objs[DownloadKey], testFile)
                               ELSE sizesMatch
              /\ IF o = "ok" \/ Caught("download_file", o)
                 THEN Return("l_delete_obj") /\ Failed("download_file", o)
                 ELSE Raise({"download_file"}, "l_download") /\ UNCHANGED stepFailed
    /\ Frame({"calls", "dlFile", "sizesMatch", "pending", "mpc", "propagated", "stepFailed"})

\* Step 7: if objects: s3_manager.delete_object(bucket_name, test_file_name)
L_DeleteObject ==
    /\ pc = "l_delete_obj"
    /\ objects # <<>>
    /\ \E f \in Faults :
        /\ Issue("s3.delete_object", DownloadKey, f, S3DeleteObject(bucket))
        /\ LET o == Outcome(f, S3DeleteObject(bucket))
           IN /\ objs' = IF o = "ok" THEN [objs EXCEPT ![DownloadKey] = None] ELSE objs
              /\ IF o = "ok" \/ Caught("delete_object", o)
                 THEN Return("l_list_remaining") /\ Failed("delete_object", o)
                 ELSE Raise({"delete_object"}, "l_delete_obj") /\ UNCHANGED stepFailed
    /\ Frame({"calls", "objs", "pending", "mpc", "propagated", "stepFailed"})

\* Steps 6 and 7 when `objects` is empty: nothing is downloaded or deleted.
L_SkipObjectSteps ==
    /\ pc \in {"l_download", "l_delete_obj"}
    /\ objects = <<>>
    /\ Goto(IF pc = "l_download" THEN "l_delete_obj" ELSE "l_list_remaining")
    /\ Frame({})

(***************************************************************************)
(* S3Manager.delete_bucket, called from step 9 and from the emergency      *)
(* cleanup: list_objects, one delete_object per listed key, the            *)
(* delete_bucket request, the bucket_not_exists waiter.                    *)
(***************************************************************************)
DBLabels == {"l_delete_bucket", "l_fin_delete"}

\* Where main goes on once delete_bucket, called at `at`, has returned.
AfterDeleteBucket(at) == IF at = "l_delete_bucket" THEN "l_verify_deleted" ELSE "l_end"

DBReturn(r) ==
    /\ dbResult' = r
    /\ Goto(AfterDeleteBucket(pc))
    /\ mpc' = "idle"
    /\ UNCHANGED <<pending, propagated>>

DBRaise(methods) ==
    /\ dbResult' = "raised"
    /\ Raise(methods \cup {"delete_bucket"}, pc)

\* A delete_bucket that never empties the bucket first.
db_after_list_skip(listed) == "req"

\* After the listing: the loop over the listed keys if there are any, else
\* straight to the delete_bucket request.
db_after_list(listed) == IF listed # <<>> THEN "del" ELSE "req"

\* objects = self.list_objects(bucket_name)
DB_List ==
    /\ pc \in DBLabels
    /\ mpc = "idle"
    /\ \E f \in Faults :
        /\ Issue("s3.list_objects_v2", 0, f, S3ListObjects(bucket))
        /\ LET o == Outcome(f, S3ListObjects(bucket))
           IN IF o = "ok" \/ Caught("list_objects", o)
              THEN /\ dbListed' = list_objects_return(o, objs)
                   /\ dbTodo' = list_objects_return(o, objs)
                   /\ dbHad' = KeysIn(objs)
                   /\ mpc' = db_after_list(list_objects_return(o, objs))
                   /\ Failed("list_objects", o)
                   /\ Goto(pc)
                   /\ UNCHANGED <<pending, propagated, dbResult>>
              ELSE /\ DBRaise({"list_objects"})
                   /\ UNCHANGED <<dbTodo, dbListed, dbHad, stepFailed>>
    /\ Frame({"calls", "db", "pending", "mpc", "propagated", "stepFailed"})

\* A loop that tries a key again when its deletion failed.
db_remaining_retry(todo, o) == IF o = "ok" THEN Tail(todo) ELSE todo

\* The keys the loop still has to visit after delete_object ended with o on
\* the first of them: the for loop moves on whatever delete_object returned.
db_remaining(todo, o) == Tail(todo)

\* for obj_key in objects: self.delete_object(bucket_name, obj_key)
DB_DeleteObject ==
    /\ pc \in DBLabels
    /\ mpc = "del"
    /\ \E f \in Faults :
        /\ Issue("s3.delete_object", Head(dbTodo), f, S3DeleteObject(bucket))
        /\ LET o == Outcome(f, S3DeleteObject(bucket))
           IN /\ objs' = IF o = "ok" THEN [objs EXCEPT ![Head(dbTodo)] = None] ELSE objs
              /\ IF o = "ok" \/ Caught("delete_object", o)
                 THEN /\ dbTodo' = db_remaining(dbTodo, o)
                      /\ mpc' = IF db_remaining(dbTodo, o) # <<>> THEN "del" ELSE "req"
                      /\ Failed("delete_object", o)
                      /\ Goto(pc)
                      /\ UNCHANGED <<pending, propagated, dbResult, dbListed, dbHad>>
                 ELSE /\ DBRaise({"delete_object"})
                      /\ UNCHANGED <<dbTodo, dbListed, dbHad, stepFailed>>
    /\ Frame({"calls", "objs", "db", "pending", "mpc", "propagated", "stepFailed"})

\* self.s3_client.delete_bucket(Bucket=bucket_name)
DB_Request ==
    /\ pc \in DBLabels
    /\ mpc = "req"
    /\ \E f \in Faults :
        /\ Issue("s3.delete_bucket", 0, f, S3DeleteBucket(bucket, objs))
        /\ LET o == Outcome(f, S3DeleteBucket(bucket, objs))
           IN /\ bucket' = IF o = "ok" THEN "absent" ELSE bucket
              /\ objs' = IF o = "ok" THEN EmptyBucket ELSE objs
              /\ IF o = "ok"
                 THEN /\ mpc' = "wait"
                      /\ Goto(pc)
                      /\ UNCHANGED <<pending, propagated, dbResult, stepFailed>>
                 ELSE IF Caught("delete_bucket", o)
                 THEN DBReturn("False") /\ Failed("delete_bucket", o)
                 ELSE DBRaise({}) /\ UNCHANGED stepFailed
    /\ UNCHANGED <<dbTodo, dbListed, dbHad>>
    /\ Frame({"calls", "bucket", "objs", "db", "pending", "mpc", "propagated", "stepFailed"})

\* waiter = self.s3_client.get_waiter('bucket_not_exists'); waiter.wait(...); return True
DB_Wait ==
    /\ pc \in DBLabels
    /\ mpc = "wait"
    /\ \E f \in {"none", "Error"} :
        /\ Issue("s3.wait_bucket_not_exists", 0, f, "ok")
        /\ IF f = "none" THEN DBReturn("True") /\ UNCHANGED stepFailed
           ELSE IF Caught("delete_bucket", f)
           THEN DBReturn("False") /\ Failed("delete_bucket", f)
           ELSE DBRaise({}) /\ UNCHANGED stepFailed
    /\ UNCHANGED <<dbTodo, dbListed, dbHad>>
    /\ Frame({"calls", "db", "pending", "mpc", "propagated", "stepFailed"})

\* What bucket_exists returns for outcome o of head_bucket.
bucket_exists_return(o) == IF o = "ok" THEN "True" ELSE "False"

\* Step 10: if not s3_manager.bucket_exists(bucket_name): print ... else: print ...
L_VerifyDeleted ==
    /\ pc = "l_verify_deleted"
    /\ \E f \in Faults :
        /\ Issue("s3.head_bucket", 0, f, S3HeadBucket(bucket))
        /\ LET o == Outcome(f, S3HeadBucket(bucket))
           IN IF o = "ok" \/ Caught("bucket_exists", o)
              THEN existsRet' = bucket_exists_return(o) /\ Return("l_final_list")
              ELSE existsRet' = "raised" /\ Raise({"bucket_exists"}, "l_verify_deleted")
    /\ Frame({"calls", "existsRet", "pending", "mpc", "propagated"})

\* finally: if os.path.exists(test_file_path): os.remove(test_file_path)
L_FinRemoveTestFile ==
    /\ pc = "l_fin_rm_test"
    /\ testFile' = None
    /\ Goto("l_fin_rm_dl")
    /\ Frame({"testFile"})

\* finally: if os.path.exists(download_path): os.remove(download_path)
L_FinRemoveDownload ==
    /\ pc = "l_fin_rm_dl"
    /\ dlFile' = None
    /\ Goto("l_fin_exists")
    /\ Frame({"dlFile"})

\* What the emergency cleanup does with bucket_exists's answer r: it calls
\* delete_bucket, or it is done.
\* A cleanup that checks the bucket and never deletes it.
cleanup_after_exists_never(r) == "l_end"

cleanup_after_exists(r) == IF r = "True" THEN "l_fin_delete" ELSE "l_end"

\* Emergency cleanup: if s3_manager.bucket_exists(bucket_name): delete_bucket(...)
L_FinExists ==
    /\ pc = "l_fin_exists"
    /\ \E f \in Faults :
        /\ Issue("s3.head_bucket", 0, f, S3HeadBucket(bucket))
        /\ LET o == Outcome(f, S3HeadBucket(bucket))
           IN IF o = "ok" \/ Caught("bucket_exists", o)
              THEN /\ finExists' = bucket_exists_return(o)
                   /\ Return(cleanup_after_exists(bucket_exists_return(o)))
              ELSE /\ finExists' = "raised"
                   /\ Raise({"bucket_exists"}, "l_fin_exists")
    /\ Frame({"calls", "fin", "pending", "mpc", "propagated"})

\* The exit code at the end of the finally block: a pending sys.exit(1) ends
\* the process with code 1; otherwise main returns.
LFinalExit(p) == IF p = "SystemExit" THEN 1 ELSE 0

L_End ==
    /\ pc = "l_end"
    /\ Exit(LFinalExit(pending), pending)
    /\ Frame({})

(***************************************************************************)
(* The user's interrupt (Ctrl+C), at most one per run. No except clause of *)
(* the scripts but the lifecycle main's except KeyboardInterrupt catches   *)
(* it: elsewhere it ends the process (exit status 130), after the finally  *)
(* block when it arrives in simple_s3_operations's try block.              *)
(***************************************************************************)
STryLabels == {"s_create", "s_mkfile", "s_upload", "s_list_buckets", "s_list_objects",
               "s_download", "s_delete_object", "s_delete_bucket"}

\* What a KeyboardInterrupt arriving in script s at position `at` does.
InterruptHandling(s, at) ==
    CASE s = "s3_bucket_lifecycle" /\ at \in LTryLabels -> "handled_then_finally"
      [] s = "simple_s3_operations" /\ at \in STryLabels -> "finally_then_out"
      [] OTHER -> "out"

Interrupt ==
    /\ Running
    /\ intAt = "none"
    /\ intAt' = IF pc \in LTryLabels \cup STryLabels THEN "try"
                ELSE IF pc \in LFinallyLabels \cup {"s_finally"} THEN "finally"
                ELSE "pre"
    /\ CASE InterruptHandling(script, pc) = "handled_then_finally" -> ToFinally("none")
         [] InterruptHandling(script, pc) = "finally_then_out" ->
                /\ Goto("s_finally")
                /\ pending' = "KeyboardInterrupt"
                /\ UNCHANGED mpc
         [] OTHER -> Exit(130, "KeyboardInterrupt") /\ UNCHANGED <<pending, mpc>>
    /\ Frame({"intAt", "pending", "mpc"})

OrchNext ==
    \/ ParseArgs
    \/ GetSession
    \/ TC_ListProfiles
    \/ TC_TestCredentials
    \/ TC_ListS3Buckets
    \/ TC_ListEc2Regions
    \/ TC_End
    \/ S_Client
    \/ S_CreateBucket
    \/ S_CreateTestFile
    \/ S_Upload
    \/ S_ListBuckets
    \/ S_ListObjects
    \/ S_Download
    \/ S_DeleteObject
    \/ S_DeleteBucket
    \/ S_Finally
    \/ L_Init
    \/ L_CreateTestFile
    \/ L_ListBefore
    \/ L_CreateBucket
    \/ L_CreateBucketWait
    \/ L_VerifyList
    \/ L_Upload
    \/ L_ListObjs
    \/ L_Download
    \/ L_DeleteObject
    \/ L_SkipObjectSteps
    \/ L_ListRemaining
    \/ DB_List
    \/ DB_DeleteObject
    \/ DB_Request
    \/ DB_Wait
    \/ L_VerifyDeleted
    \/ L_FinalList
    \/ L_FinRemoveTestFile
    \/ L_FinRemoveDownload
    \/ L_FinExists
    \/ L_End
    \/ Interrupt

Init == OrchInit /\ RunnerIdle /\ SetupIdle
Next == OrchNext
Spec == Init /\ [][Next]_vars

(***************************************************************************)
(* run_all_examples.py: the runner.                                        *)
(***************************************************************************)
Examples == <<"test_connection.py", "simple_s3_operations.py", "s3_bucket_lifecycle.py">>

\* Exit codes a child process can end with: success, sys.exit(1) or a
\* traceback, argparse's usage error, death by SIGINT.
ChildExitCodes == {0, 1, 2, 130}

Exited(c) == [kind |-> "exit", code |-> c]
NotRun(why) == [kind |-> why, code |-> -1]

\* A run_example that takes exit codes 0 and 1 for success.
run_example_lenient(outcome) ==
    IF outcome.kind = "exit" THEN outcome.code \in {0, 1} ELSE FALSE

\* run_example's return value, given what happened to the script.
run_example(outcome) ==
    IF outcome.kind = "exit" THEN outcome.code = 0 ELSE FALSE

\* The summary's count: successful += 1 for every success in results.
RECURSIVE CountSuccess(_)
CountSuccess(rs) ==
    IF rs = <<>> THEN 0
    ELSE (IF Head(rs) THEN 1 ELSE 0) + CountSuccess(Tail(rs))

\* if successful == len(examples): ... else: ...
SummaryBranch(n) == IF n = Len(Examples) THEN "all" ELSE "some_failed"

\* A pause that follows the passed runs only.
PauseAfterPassed(i) == Examples[i] # Examples[Len(Examples)] /\ results[i]

\* Whether the pause follows the example at index i of the list.
PauseAfter(i) == Examples[i] # Examples[Len(Examples)]

\* A loop that stops at the first failed example.
HasNextUnlessFailed(i) == i < Len(Examples) /\ results[i]

\* Whether the for loop has another example after the one at index i.
HasNext(i) == i < Len(Examples)

RunnerInit ==
    /\ rpc = "start"
    /\ idx = 0
    /\ results = <<>>
    /\ outcomes = <<>>
    /\ running = {}
    /\ trace = <<>>
    /\ successful = 0
    /\ allOk = "unset"
    /\ rExit = -1

RExit(code) ==
    /\ rpc' = "done"
    /\ rExit' = code

\* if not Path("examples").exists(): sys.exit(1)
R_CheckDir ==
    /\ rpc = "start"
    /\ \E exists \in BOOLEAN :
        IF exists
        THEN rpc' = "prompt" /\ UNCHANGED <<rExit, trace>>
        ELSE RExit(1) /\ trace' = Append(trace, <<"no_examples_dir", 0>>)
    /\ UNCHANGED <<idx, results, outcomes, running, successful, allOk, orchVars, setupVars>>

\* if args.interactive: input(...); an EOFError there is an unexpected
\* exception, which __main__ reports with exit code 1.
R_Prompt ==
    /\ rpc = "prompt"
    /\ \E interactive \in BOOLEAN, eof \in BOOLEAN :
        IF interactive /\ eof
        THEN RExit(1) /\ trace' = Append(trace, <<"exception", 0>>) /\ UNCHANGED idx
        ELSE rpc' = "run" /\ idx' = 1 /\ UNCHANGED <<rExit, trace>>
    /\ UNCHANGED <<results, outcomes, running, successful, allOk, orchVars, setupVars>>

\* run_example up to subprocess.run: the script is missing, the launch
\* raises, or the child process starts.
R_Launch ==
    /\ rpc = "run"
    /\ \E how \in {"missing", "launch_error", "started"} :
        IF how = "started"
        THEN /\ running' = running \cup {idx}
             /\ trace' = Append(trace, <<"run", idx>>)
             /\ rpc' = "wait"
             /\ UNCHANGED <<results, outcomes>>
        ELSE /\ outcomes' = Append(outcomes, NotRun(how))
             /\ results' = Append(results, run_example(NotRun(how)))
             /\ trace' = trace \o <<<<"run", idx>>, <<"end", idx>>>>
             /\ rpc' = "after"
             /\ UNCHANGED running
    /\ UNCHANGED <<idx, successful, allOk, rExit, orchVars, setupVars>>

\* subprocess.run returns when the child has exited; results.append(...)
R_ChildExit ==
    /\ rpc = "wait"
    /\ \E c \in ChildExitCodes :
        /\ outcomes' = Append(outcomes, Exited(c))
        /\ results' = Append(results, run_example(Exited(c)))
    /\ running' = running \ {idx}
    /\ trace' = Append(trace, <<"end", idx>>)
    /\ rpc' = "after"
    /\ UNCHANGED <<idx, successful, allOk, rExit, orchVars, setupVars>>

\* if script_name != examples[-1][0]: ... time.sleep(3)
R_Pause ==
    /\ rpc = "after"
    /\ trace' = IF PauseAfter(idx) THEN Append(trace, <<"pause", idx>>) ELSE trace
    /\ rpc' = "next"
    /\ UNCHANGED <<idx, results, outcomes, running, successful, allOk, rExit, orchVars, setupVars>>

\* for script_name, description in examples: the next iteration
R_NextExample ==
    /\ rpc = "next"
    /\ HasNext(idx)
    /\ idx' = idx + 1
    /\ rpc' = "run"
    /\ UNCHANGED <<results, outcomes, running, trace, successful, allOk, rExit, orchVars, setupVars>>

\* An exit code that reflects the tally.
main_exit_code_tally(n) == IF n = Len(Examples) THEN 0 ELSE 1

\* main returns after the summary whatever the tally n: the process ends
\* with exit code 0.
main_exit_code(n) == 0

\* The summary: the tally, the branch on it, and main returns.
R_Summary ==
    /\ rpc = "next"
    /\ ~HasNext(idx)
    /\ successful' = CountSuccess(results)
    /\ allOk' = SummaryBranch(CountSuccess(results))
    /\ RExit(main_exit_code(CountSuccess(results)))
    /\ UNCHANGED <<idx, results, outcomes, running, trace, orchVars, setupVars>>

\* Ctrl+C: KeyboardInterrupt leaves main; __main__ prints and calls sys.exit(0).
\* The terminal delivers the signal to the running child as well.
R_Interrupt ==
    /\ rpc # "done"
    /\ running' = {}
    /\ trace' = Append(trace, <<"interrupt", 0>>)
    /\ RExit(0)
    /\ UNCHANGED <<idx, results, outcomes, successful, allOk, orchVars, setupVars>>

RunnerNext ==
    \/ R_CheckDir
    \/ R_Prompt
    \/ R_Launch
    \/ R_ChildExit
    \/ R_Pause
    \/ R_NextExample
    \/ R_Summary
    \/ R_Interrupt

InitRunner == OrchIdle /\ RunnerInit /\ SetupIdle
SpecRunner == InitRunner /\ [][RunnerNext]_vars

(***************************************************************************)
(* setup.py                                                                *)
(***************************************************************************)
\* How many times in a row the script is run.
MaxRuns == 2

\* packages = ["boto3", "botocore"]
SetupPackages == <<"boto3", "botocore">>

SetupStages == <<"version", "venv", "deps", "verify", "env">>

\* How a command ends: exit status 0, a non-zero exit status
\* (CalledProcessError under check=True), or it cannot be started (OSError).
\* The commands of .venv need its executables.
VenvCommandOutcomes(v) == IF v = "ok" THEN {"ok", "nonzero"} ELSE {"oserror"}

\* run_command: the result, None on CalledProcessError; any other exception
\* is not caught.
run_command(o) ==
    CASE o = "ok" -> "result"
      [] o = "nonzero" -> "None"
      [] OTHER -> "raise"

NoPrev ==
    [exit |-> -1, venv |-> "absent", pipUpgraded |-> FALSE, packages |-> {},
     envFile |-> None]

SetupInit ==
    /\ spc = "version"
    /\ runNo = 1
    /\ pythonOk \in BOOLEAN
    /\ venv \in {"absent", "ok", "broken"}
    /\ pipUpgraded \in (IF venv = "ok" THEN BOOLEAN ELSE {FALSE})
    /\ packages \in (IF venv = "ok" THEN SUBSET SeqToSet(SetupPackages) ELSE {{}})
    /\ envFile \in {None, Some("edited")}
    /\ envExample \in {None, Some("template")}
    /\ pkgIdx = 0
    /\ stages = <<>>
    /\ commands = <<>>
    /\ setupExit = -1
    /\ atStart = [venv |-> venv, envFile |-> envFile, envExample |-> envExample]
    /\ prev = NoPrev

\* sys.exit(code), main's return (code 0), or a traceback (code 1).
SetupEnd(code) ==
    /\ spc' = "done"
    /\ setupExit' = code

SetupGoto(stage) ==
    /\ spc' = stage
    /\ UNCHANGED setupExit

\* run_command(command, description): the command is run once and logged.
Command(name, o) == commands' = Append(commands, <<name, o>>)

\* main's sys.exit(1) after a stage that returned False, or the exception
\* that run_command let through.
SetupFail == SetupEnd(1)

\* if not check_python_version(): sys.exit(1)
SU_CheckVersion ==
    /\ spc = "version"
    /\ stages' = Append(stages, "version")
    /\ IF pythonOk THEN SetupGoto("venv") ELSE SetupFail
    /\ UNCHANGED <<runNo, pythonOk, venv, pipUpgraded, packages, envFile, envExample,
                   pkgIdx, commands, atStart, prev, orchVars, runnerVars>>

\* A check that never finds the directory.
venv_exists_never(v) == FALSE

\* if venv_path.exists(): return True
venv_exists(v) == v # "absent"

\* if not create_virtual_environment(): sys.exit(1)
SU_CreateVenv ==
    /\ spc = "venv"
    /\ stages' = Append(stages, "venv")
    /\ IF venv_exists(venv)
       THEN /\ SetupGoto("pip")
            /\ UNCHANGED <<venv, pipUpgraded, packages, commands>>
       ELSE \E o \in {"ok", "nonzero"} :
            /\ Command("venv", o)
            /\ IF run_command(o) = "result"
               THEN /\ venv' = "ok"
                    /\ pipUpgraded' = FALSE
                    /\ packages' = {}
                    /\ SetupGoto("pip")
               ELSE /\ venv' \in {"absent", "broken"}
                    /\ UNCHANGED <<pipUpgraded, packages>>
                    /\ SetupFail
    /\ UNCHANGED <<runNo, pythonOk, envFile, envExample, pkgIdx, atStart, prev,
                   orchVars, runnerVars>>

\* install_dependencies: what follows the pip upgrade, whose result is not looked at.
after_pip_upgrade(r) == IF r = "raise" THEN "done" ELSE "install"

\* install_dependencies: run_command([python_path, "-m", "pip", "install", "--upgrade", "pip"], ...)
SU_UpgradePip ==
    /\ spc = "pip"
    /\ stages' = Append(stages, "deps")
    /\ \E o \in VenvCommandOutcomes(venv) :
        /\ Command("pip_upgrade", o)
        /\ pipUpgraded' = (pipUpgraded \/ o = "ok")
        /\ IF after_pip_upgrade(run_command(o)) = "install"
           THEN SetupGoto("install") /\ pkgIdx' = 1
           ELSE SetupFail /\ UNCHANGED pkgIdx
    /\ UNCHANGED <<runNo, pythonOk, venv, packages, envFile, envExample, atStart, prev,
                   orchVars, runnerVars>>

\* An installation loop that goes on after a failed package.
after_install_continue(r, i) ==
    IF r = "raise" THEN "done"
    ELSE IF i < Len(SetupPackages) THEN "install" ELSE "verify"

\* install_dependencies: what follows the installation of package i:
\* return False, the next package, or return True.
after_install(r, i) ==
    IF r # "result" THEN "done"
    ELSE IF i < Len(SetupPackages) THEN "install" ELSE "verify"

\* install_dependencies: for package in packages: run_command([pip_path, "install", package], ...)
SU_Install ==
    /\ spc = "install"
    /\ \E o \in VenvCommandOutcomes(venv) :
        /\ Command(SetupPackages[pkgIdx], o)
        /\ packages' = IF o = "ok" THEN packages \cup {SetupPackages[pkgIdx]} ELSE packages
        /\ CASE after_install(run_command(o), pkgIdx) = "install" ->
                    SetupGoto("install") /\ pkgIdx' = pkgIdx + 1
             [] after_install(run_command(o), pkgIdx) = "verify" ->
                    SetupGoto("verify") /\ UNCHANGED pkgIdx
             [] OTHER -> SetupFail /\ UNCHANGED pkgIdx
    /\ UNCHANGED <<runNo, pythonOk, venv, pipUpgraded, envFile, envExample, stages,
                   atStart, prev, orchVars, runnerVars>>

\* The import check succeeds only where boto3 is installed.
VerifyOutcomes ==
    IF "boto3" \in packages THEN VenvCommandOutcomes(venv)
    ELSE VenvCommandOutcomes(venv) \ {"ok"}

\* if not verify_installation(): sys.exit(1)
SU_Verify ==
    /\ spc = "verify"
    /\ stages' = Append(stages, "verify")
    /\ \E o \in VerifyOutcomes :
        /\ Command("verify", o)
        /\ IF run_command(o) = "result" THEN SetupGoto("env") ELSE SetupFail
    /\ UNCHANGED <<runNo, pythonOk, venv, pipUpgraded, packages, envFile, envExample,
                   pkgIdx, atStart, prev, orchVars, runnerVars>>

\* if not env_file.exists() and env_example.exists():
copies_template(env, example) == env = None /\ example # None

\* What the copy leaves in .env: the template's text, nothing when reading
\* the template fails, an empty file when the write fails after opening.
CopyResults(example) == {example, None, Some("")}

\* create_env_file(), then main prints the next steps and returns.
SU_CreateEnvFile ==
    /\ spc = "env"
    /\ stages' = Append(stages, "env")
    /\ IF copies_template(envFile, envExample)
       THEN envFile' \in CopyResults(envExample)
       ELSE UNCHANGED envFile
    /\ SetupEnd(0)
    /\ UNCHANGED <<runNo, pythonOk, venv, pipUpgraded, packages, envExample, pkgIdx,
                   commands, atStart, prev, orchVars, runnerVars>>

\* The script is run again in the same directory.
SU_Rerun ==
    /\ spc = "done"
    /\ runNo >= 1
    /\ runNo < MaxRuns
    /\ prev' = Left(setupExit)
    /\ runNo' = runNo + 1
    /\ spc' = "version"
    /\ setupExit' = -1
    /\ pkgIdx' = 0
    /\ stages' = <<>>
    /\ commands' = <<>>
    /\ atStart' = [venv |-> venv, envFile |-> envFile, envExample |-> envExample]
    /\ UNCHANGED <<pythonOk, venv, pipUpgraded, packages, envFile, envExample,
                   orchVars, runnerVars>>

SetupNext ==
    \/ SU_CheckVersion
    \/ SU_CreateVenv
    \/ SU_UpgradePip
    \/ SU_Install
    \/ SU_Verify
    \/ SU_CreateEnvFile
    \/ SU_Rerun

InitSetup == OrchIdle /\ RunnerIdle /\ SetupInit
SpecSetup == InitSetup /\ [][SetupNext]_vars

(***************************************************************************)
(* The scripts and the runner side by side: a process is one of the three  *)
(* scripts or the runner.                                                  *)
(***************************************************************************)
InitPrograms == Init \/ InitRunner
ProgramsNext == OrchNext \/ RunnerNext
SpecPrograms == InitPrograms /\ [][ProgramsNext]_vars

(***************************************************************************)
(* Reading the call log.                                                   *)
(***************************************************************************)
IsLifecycle == script = "s3_bucket_lifecycle"

\* The position of the last call of `op` in the log; 0 when there is none.
LastIdx(op) ==
    LET S == {i \in 1..Len(calls) : calls[i].op = op}
    IN IF S = {} THEN 0 ELSE CHOOSE i \in S : \A j \in S : j <= i

\* A delete_object for key k was issued after position n of the log and
\* before any delete_bucket request that follows n.
DeleteIssuedAfter(n, k) ==
    \E i \in (n + 1)..Len(calls) :
        /\ calls[i].op = "s3.delete_object"
        /\ calls[i].key = k
        /\ \A j \in (n + 1)..i : calls[j].op # "s3.delete_bucket"

\* The emergency cleanup called delete_bucket: its listing is the call
\* that follows the last head_bucket.
CleanupDeleteCalled ==
    LET h == LastIdx("s3.head_bucket")
    IN h > 0 /\ h < Len(calls) /\ calls[h + 1].op = "s3.list_objects_v2"

InterruptedInTry == IsLifecycle /\ pc = "done" /\ intAt = "try"

SuppliedBad ==
    \/ argProfile \notin KnownProfiles \cup {""}
    \/ argProfile = "" /\ envProfile \notin KnownProfiles \cup {""}

C3_BadProfileNoCalls ==
    SuppliedBad =>
        /\ calls = <<>>
        /\ (pc \notin {"start", "session"} /\ ~listProfiles /\ intAt # "pre") =>
                /\ reported
                /\ session = "None"
                /\ pc = "done"

\* C3's case: the lifecycle script ended on a profile that does not exist.
C3_Witness ==
    /\ IsLifecycle
    /\ pc = "done"
    /\ argProfile = "bad"
    /\ reported
    /\ session = "None"
    /\ calls = <<>>

(***************************************************************************)
(* C4: S3Manager.create_bucket returns True when the create_bucket request *)
(* fails with BucketAlreadyOwnedByYou, False when it fails with            *)
(* BucketAlreadyExists or any other client error, and on a successful      *)
(* request returns True only after the bucket-exists wait has completed.   *)
(***************************************************************************)
C4_CreateBucketReturn ==
    (IsLifecycle /\ created # "unset") =>
        LET c == LastIdx("s3.create_bucket")
            o == calls[c].out
        IN /\ c > 0
           /\ o = "BucketAlreadyOwnedByYou" => created = "True"
           /\ (IsClientError(o) /\ o # "BucketAlreadyOwnedByYou") => created = "False"
           /\ (o = "ok" /\ created = "True") =>
                /\ Len(calls) > c
                /\ calls[c + 1] = Call("s3.wait_bucket_exists", 0, "ok")

\* C4's case: the bucket was already owned by the caller and create_bucket
\* returned True.
C4_Witness ==
    /\ IsLifecycle
    /\ created = "True"
    /\ calls[LastIdx("s3.create_bucket")].out = "BucketAlreadyOwnedByYou"

(***************************************************************************)
(* C5: in the lifecycle script a successful upload_file of the test file   *)
(* followed by a successful download_file of its key leaves a downloaded   *)
(* file identical, byte for byte, to the uploaded file, and the size       *)
(* comparison reports a match.                                             *)
(***************************************************************************)
UploadedAndDownloaded ==
    /\ IsLifecycle
    /\ pc = "l_delete_obj"
    /\ LastIdx("s3.upload_file") > 0
    /\ calls[LastIdx("s3.upload_file")].out = "ok"
    /\ calls[Len(calls)] = Call("s3.download_file", DownloadKey, "ok")

C5_RoundTrip ==
    UploadedAndDownloaded =>
        /\ dlFile = Some(testContent)
        /\ dlFile = testFile
        /\ sizesMatch = "match"

\* C5's case: a non-empty file went up and came back.
C5_Witness ==
    /\ UploadedAndDownloaded
    /\ testContent # <<>>
    /\ dlFile = Some(testContent)
    /\ sizesMatch = "match"

(***************************************************************************)
(* C6, as stated: no S3Manager operation lets an exception of its SDK      *)
(* call out to its caller. The code breaks it: only create_bucket has an   *)
(* except Exception clause; the other operations catch ClientError (and    *)
(* upload_file FileNotFoundError) only, so any other SDK exception         *)
(* (EndpointConnectionError, WaiterError, S3UploadFailedError...) leaves   *)
(* them.                                                                   *)
(***************************************************************************)
C6_NothingPropagates == propagated = {}

(***************************************************************************)
(* C7, as stated: each script ends with exit code 1 when the session or    *)
(* credential resolution fails and with exit code 0 when the run           *)
(* succeeds. The code breaks it: simple_s3_operations returns from main    *)
(* (exit code 0) when get_boto3_session returns None.                      *)
(***************************************************************************)
CredentialsRejected ==
    /\ LastIdx("sts.get_caller_identity") > 0
    /\ calls[LastIdx("sts.get_caller_identity")].out # "ok"

RunSucceeded ==
    /\ session # "None"
    /\ uncaught = "none"
    /\ stepFailed = {}
    /\ propagated = {}
    /\ \A i \in 1..Len(calls) : calls[i].out = "ok"

C7_ExitCodes ==
    (pc = "done" /\ intAt = "none" /\ ~listProfiles) =>
        /\ session = "None" => exitCode = 1
        /\ CredentialsRejected => exitCode = 1
        /\ RunSucceeded => exitCode = 0

(***************************************************************************)
(* C8, as stated: a step of the demonstration sequence that reports        *)
(* failure does not change the exit code, which is non-zero only through   *)
(* an unhandled exception. The code breaks it in the lifecycle script,     *)
(* whose main calls sys.exit(1) when create_bucket returns False.          *)
(***************************************************************************)
StepFailedNoException ==
    /\ pc = "done"
    /\ stepFailed # {}
    /\ uncaught \notin {"Error", "KeyboardInterrupt"}

C8_Original == StepFailedNoException => exitCode = 0

(***************************************************************************)
(* C8, amended: a step of the demonstration sequence that reports failure  *)
(* leaves the exit code at 0, except that the lifecycle script exits with  *)
(* code 1 when its create_bucket returns False; and a script ends with a   *)
(* non-zero exit code only when an exception (sys.exit's SystemExit        *)
(* included) leaves main.                                                  *)
(***************************************************************************)
C8_StepFailureExitCode ==
    /\ StepFailedNoException =>
            IF IsLifecycle /\ created = "False" THEN exitCode = 1 ELSE exitCode = 0
    /\ (pc = "done" /\ exitCode # 0) => uncaught # "none"

\* C8's case: the lifecycle script's upload reported failure and the run
\* ended with exit code 0.
C8_Witness ==
    /\ IsLifecycle
    /\ pc = "done"
    /\ "upload_file" \in stepFailed
    /\ created = "True"
    /\ uncaught = "none"
    /\ exitCode = 0

(***************************************************************************)
(* Reading the runner's trace.                                             *)
(***************************************************************************)
\* The indices of the examples run_example was called for, in call order.
RECURSIVE RunOrder(_)
RunOrder(t) ==
    IF t = <<>> THEN <<>>
    ELSE (IF Head(t)[1] = "run" THEN <<Head(t)[2]>> ELSE <<>>) \o RunOrder(Tail(t))

\* The trace position of an event; 0 when the trace does not hold it.
EventAt(e) ==
    LET S == {i \in 1..Len(trace) : trace[i] = e}
    IN IF S = {} THEN 0 ELSE CHOOSE i \in S : \A j \in S : i <= j

\* The runner left its loop by the end of the list, not by an interrupt or
\* an exception.
ReachedSummary == rpc = "done" /\ allOk # "unset"

(***************************************************************************)
(* C9: the runner calls the three orchestrators one at a time in the order *)
(* test_connection, simple_s3_operations, s3_bucket_lifecycle; no child    *)
(* starts before the previous one has finished; and whatever the outcome   *)
(* of a run (non-zero exit code, missing script, launch exception) every   *)
(* later orchestrator is still run.                                        *)
(***************************************************************************)
C9_SequentialOrder ==
    /\ Cardinality(running) <= 1
    /\ Len(RunOrder(trace)) <= Len(Examples)
    /\ \A i \in 1..Len(RunOrder(trace)) : RunOrder(trace)[i] = i
    /\ \A i \in 2..Len(RunOrder(trace)) :
            /\ EventAt(<<"end", i - 1>>) > 0
            /\ EventAt(<<"end", i - 1>>) < EventAt(<<"run", i>>)
    /\ (rpc = "next" /\ idx < Len(Examples)) => ENABLED R_NextExample
    /\ ReachedSummary =>
            /\ RunOrder(trace) = <<1, 2, 3>>
            /\ Len(outcomes) = Len(Examples)
            /\ running = {}

\* C9's case: the first script was missing, the second exited with code 1,
\* and the third was run all the same.
C9_Witness ==
    /\ ReachedSummary
    /\ outcomes[1] = NotRun("missing")
    /\ outcomes[2] = Exited(1)
    /\ outcomes[3] = Exited(0)
    /\ RunOrder(trace) = <<1, 2, 3>>

(***************************************************************************)
(* C10: the runner's final tally is the number of orchestrators whose      *)
(* child process exited with code 0; an orchestrator counts as passed if   *)
(* and only if its exit code was 0; and the all-successful branch is taken *)
(* if and only if all three passed.                                        *)
(***************************************************************************)
ExitedZero == {i \in 1..Len(outcomes) : outcomes[i] = Exited(0)}

C10_Tally ==
    /\ \A i \in 1..Len(results) : results[i] <=> i \in ExitedZero
    /\ ReachedSummary =>
            /\ successful = Cardinality(ExitedZero)
            /\ allOk = "all" <=> ExitedZero = 1..Len(Examples)

\* C10's case: two of the three children exited with code 0, one of the
\* others with a non-zero code, and the tally is 2.
C10_Witness ==
    /\ ReachedSummary
    /\ outcomes = <<Exited(0), Exited(2), Exited(0)>>
    /\ successful = 2
    /\ allOk = "some_failed"

(***************************************************************************)
(* C11: get_boto3_session resolves by strict precedence: a non-empty       *)
(* explicit profile name is used even when AWS_PROFILE is set; otherwise a *)
(* non-empty AWS_PROFILE is used; otherwise a default session is created;  *)
(* and the three scripts' copies of the resolver give the same result for  *)
(* every (explicit profile, environment profile) pair.                     *)
(***************************************************************************)
\* The profile the precedence rule selects; "" stands for the default credentials.
SelectedProfile == IF argProfile # "" THEN argProfile ELSE envProfile

SessionResolved == session # "unset"

C11_ResolverPrecedence ==
    /\ SessionResolved =>
            session = IF SelectedProfile = "" THEN "default"
                      ELSE IF SelectedProfile \in KnownProfiles THEN SelectedProfile
                      ELSE "None"
    /\ \A p \in ProfileNames, e \in ProfileNames :
            \A s1 \in Scripts, s2 \in Scripts :
                get_boto3_session(s1, p, e) = get_boto3_session(s2, p, e)

\* C11's case: simple_s3_operations went on with the explicit profile while
\* AWS_PROFILE named another one.
C11_Witness ==
    /\ script = "simple_s3_operations"
    /\ argProfile = "good"
    /\ envProfile = "bad"
    /\ session = "good"
    /\ calls # <<>>

(***************************************************************************)
(* C12, as stated: in simple_s3_operations and s3_bucket_lifecycle, when a *)
(* step after the bucket's creation fails, the cleanup at the end of the   *)
(* run removes the local temporary files and deletes the test bucket if it *)
(* still exists. The code breaks it: the finally block of                  *)
(* simple_s3_operations removes the local files only, so the bucket it     *)
(* created stays behind.                                                   *)
(***************************************************************************)
\* The run created the bucket and a later request failed.
FailedAfterCreation ==
    LET c == LastIdx("s3.create_bucket")
    IN /\ c > 0
       /\ calls[c].out = "ok"
       /\ \E i \in (c + 1)..Len(calls) : calls[i].out # "ok"

\* The run tried to delete the bucket after the failure.
DeleteAttempted ==
    \/ CleanupDeleteCalled
    \/ \E i \in 1..Len(calls) : calls[i].op = "s3.delete_bucket"

C12_CleanupAfterFailure ==
    (pc = "done" /\ intAt = "none" /\ FailedAfterCreation) =>
        /\ testFile = None
        /\ dlFile = None
        /\ bucket = "mine" => DeleteAttempted

(***************************************************************************)
(* Reading the setup script's log.                                         *)
(***************************************************************************)
\* The names of the commands run so far in this run, in order.
CommandNames == [i \in 1..Len(commands) |-> commands[i][1]]

Ran(name) == \E i \in 1..Len(commands) : commands[i][1] = name

\* This run follows a run that ended with exit code 0.
RerunAfterSuccess == runNo >= 2 /\ prev.exit = 0

(***************************************************************************)
(* C13, as stated: when .venv already exists no creation command is run;   *)
(* when .env exists or .env.example does not, .env is neither created nor  *)
(* overwritten; and a second run after a successful first run leaves .venv *)
(* and .env as the first run left them.                                    *)
(* The code breaks the last part: the rerun runs pip's upgrade inside      *)
(* .venv again, which succeeds where the first run's ignored upgrade had   *)
(* failed, and it retries the template copy when the first run left no     *)
(* .env.                                                                   *)
(***************************************************************************)
C13_Original ==
    /\ atStart.venv # "absent" => ~Ran("venv")
    /\ (atStart.envFile # None \/ atStart.envExample = None) => envFile = atStart.envFile
    /\ RerunAfterSuccess =>
            /\ venv = prev.venv
            /\ pipUpgraded = prev.pipUpgraded
            /\ packages = prev.packages
            /\ envFile = prev.envFile

(***************************************************************************)
(* C13, amended: when .venv already exists no creation command is run;     *)
(* when .env exists or .env.example does not, .env is neither created nor  *)
(* overwritten; and a second run after a successful first run does not     *)
(* create .venv again, leaves the installed packages as they were and      *)
(* leaves the .env of the first run untouched if there is one (pip itself  *)
(* may be upgraded by the rerun, and a missing .env is copied again).      *)
(***************************************************************************)
C13_SetupIdempotent ==
    /\ atStart.venv # "absent" => ~Ran("venv")
    /\ (atStart.envFile # None \/ atStart.envExample = None) => envFile = atStart.envFile
    /\ RerunAfterSuccess =>
            /\ ~Ran("venv")
            /\ venv = prev.venv
            /\ packages = prev.packages
            /\ prev.pipUpgraded => pipUpgraded
            /\ prev.envFile # None => envFile = prev.envFile

\* C13's case: a first run created .venv and copied the template; the
\* second run went through all its stages and left both as they were.
C13_Witness ==
    /\ RerunAfterSuccess
    /\ spc = "done"
    /\ setupExit = 0
    /\ ~Ran("venv")
    /\ venv = "ok"
    /\ envFile = Some("template")
    /\ envFile = prev.envFile
    /\ envExample # None

(***************************************************************************)
(* C14: S3Manager.list_objects on an existing bucket with no objects       *)
(* returns an empty list and reports no error; list_buckets and            *)
(* list_objects return an empty list when their request fails with a       *)
(* client error.                                                           *)
(***************************************************************************)
\* The last request of the log is `op` and no step has been taken since
\* the operation that issued it returned to main at `at`.
JustReturned(op, at) ==
    /\ IsLifecycle
    /\ pc \in at
    /\ mpc = "idle"
    /\ calls # <<>>
    /\ calls[Len(calls)].op = op

LastOut == calls[Len(calls)].out

C14_EmptyListings ==
    /\ JustReturned("s3.list_objects_v2", {"l_download"}) =>
            /\ (LastOut = "ok" /\ KeysIn(objs) = {}) =>
                    /\ objects = <<>>
                    /\ "list_objects" \notin stepFailed \cup propagated
            /\ IsClientError(LastOut) => objects = <<>>
            /\ (LastOut = "ok" /\ KeysIn(objs) # {}) => objects # <<>>
    /\ JustReturned("s3.list_buckets", {"l_create", "l_upload"}) =>
            /\ IsClientError(LastOut) => bucketList = <<>>
            /\ (LastOut = "ok" /\ bucket = "mine") => bucketList # <<>>

\* C14's case: the upload failed, so step 5 listed a bucket that exists and
\* is empty, and got the empty list with no error reported.
C14_Witness ==
    /\ JustReturned("s3.list_objects_v2", {"l_download"})
    /\ LastOut = "ok"
    /\ bucket = "mine"
    /\ KeysIn(objs) = {}
    /\ objects = <<>>
    /\ "list_objects" \notin stepFailed

(***************************************************************************)
(* C15: nothing is retried. One call of an S3Manager operation issues its  *)
(* SDK request at most once per target, whether or not the request fails:  *)
(* the log holds no more requests of a kind than main's sequence has calls *)
(* of the operation, a failed request is followed by the same request on   *)
(* the same target only where main calls the operation again (the          *)
(* listings), and delete_bucket's loop visits each listed key once; and    *)
(* the runner launches each orchestrator once per run.                     *)
(***************************************************************************)
Requests(op) == Cardinality({i \in 1..Len(calls) : calls[i].op = op})

\* How many times a run of the script calls the operation behind `op`:
\* the lifecycle script lists buckets at steps 1, 3 and 11, lists objects at
\* steps 5 and 8 and inside each delete_bucket, and calls bucket_exists and
\* delete_bucket at steps 9-10 and in the cleanup.
CallsOf(op) ==
    IF ~IsLifecycle THEN 1
    ELSE CASE op = "s3.list_buckets" -> 3
           [] op = "s3.list_objects_v2" -> 4
           [] op \in {"s3.head_bucket", "s3.delete_bucket", "s3.wait_bucket_not_exists"} -> 2
           [] op = "s3.delete_object" -> 1 + 2 * NumKeys
           [] OTHER -> 1

\* The operations main calls twice in a row on the same target: list_objects
\* at step 8 and inside delete_bucket, bucket_exists at step 10 and in the cleanup.
CalledAgainByMain == {"s3.list_objects_v2", "s3.head_bucket"}

C15_NoRetry ==
    /\ \A op \in {calls[i].op : i \in 1..Len(calls)} : Requests(op) <= CallsOf(op)
    /\ \A i \in 1..(Len(calls) - 1) :
            /\ (calls[i].out # "ok" /\ calls[i + 1].op = calls[i].op
                    /\ calls[i + 1].key = calls[i].key) =>
                    calls[i].op \in CalledAgainByMain
            /\ (calls[i].op = "s3.delete_object" /\ calls[i + 1].op = "s3.delete_object") =>
                    calls[i].key < calls[i + 1].key
    /\ \A i \in 1..Len(Examples) :
            Cardinality({j \in 1..Len(trace) : trace[j] = <<"run", i>>}) <= 1
    /\ ReachedSummary =>
            \A i \in 1..Len(Examples) :
                Cardinality({j \in 1..Len(trace) : trace[j] = <<"run", i>>}) = 1

\* C15's case: inside delete_bucket the deletion of the first listed key
\* failed and the loop went on to the second key and to the bucket.
C15_Witness ==
    /\ IsLifecycle
    /\ Len(dbListed) >= 2
    /\ \E i \in 1..(Len(calls) - 2) :
            /\ calls[i] = Call("s3.delete_object", dbListed[1], "AccessDenied")
            /\ calls[i + 1].op = "s3.delete_object"
            /\ calls[i + 1].key = dbListed[2]
            /\ calls[i + 2].op = "s3.delete_bucket"

(***************************************************************************)
(* C16, as stated: inside delete_bucket the failure of a per-object        *)
(* deletion is not surfaced: the loop goes on, the delete_bucket request   *)
(* is still issued, and the return value follows the bucket deletion       *)
(* alone. The code breaks it when delete_object fails with an exception    *)
(* that is not a ClientError: neither delete_object nor delete_bucket      *)
(* catches it, the loop is abandoned and no delete_bucket request is       *)
(* issued.                                                                 *)
(***************************************************************************)
\* Request i of the log is a delete_object of delete_bucket's loop: it comes
\* straight after the listing or after another delete_object.
InLoop(i) ==
    /\ i > 1
    /\ calls[i].op = "s3.delete_object"
    /\ calls[i - 1].op \in {"s3.list_objects_v2", "s3.delete_object"}

C16_ObjectFailuresNotSurfaced ==
    (IsLifecycle /\ intAt = "none") =>
        /\ \A i \in 1..Len(calls) :
                (InLoop(i) /\ calls[i].out # "ok") =>
                    IF i < Len(calls)
                    THEN calls[i + 1].op \in {"s3.delete_object", "s3.delete_bucket"}
                    ELSE mpc \in {"del", "req"}
        /\ (mpc = "idle" /\ calls # <<>> /\ pc \in {"l_verify_deleted", "l_end"}) =>
                /\ calls[Len(calls)] = Call("s3.wait_bucket_not_exists", 0, "ok") =>
                        dbResult = "True"
                /\ (calls[Len(calls)].op = "s3.delete_bucket"
                        /\ IsClientError(calls[Len(calls)].out)) => dbResult = "False"

(***************************************************************************)
(* C17: the runner pauses after every orchestrator run except the last:    *)
(* for the three orchestrators exactly two pauses occur, each between the  *)
(* end of one run and the start of the next, none after the final run,     *)
(* whether the runs passed or failed.                                      *)
(***************************************************************************)
Pauses == {j \in 1..Len(trace) : trace[j][1] = "pause"}

C17_PausesBetweenRuns ==
    /\ \A j \in Pauses : trace[j][2] \in 1..(Len(Examples) - 1)
    /\ \A i \in 1..(Len(Examples) - 1) :
            /\ Cardinality({j \in Pauses : trace[j][2] = i}) <= 1
            /\ EventAt(<<"pause", i>>) > 0 =>
                    /\ EventAt(<<"end", i>>) > 0
                    /\ EventAt(<<"end", i>>) < EventAt(<<"pause", i>>)
            /\ EventAt(<<"run", i + 1>>) > 0 =>
                    /\ EventAt(<<"pause", i>>) > 0
                    /\ EventAt(<<"pause", i>>) < EventAt(<<"run", i + 1>>)
    /\ ReachedSummary =>
            /\ Cardinality(Pauses) = Len(Examples) - 1
            /\ trace[Len(trace)] = <<"end", Len(Examples)>>

\* C17's case: all three runs failed and the two pauses took place.
C17_Witness ==
    /\ ReachedSummary
    /\ \A i \in 1..Len(Examples) : ~results[i]
    /\ Cardinality(Pauses) = 2
    /\ EventAt(<<"pause", 1>>) > 0
    /\ EventAt(<<"pause", 2>>) > 0

(***************************************************************************)
(* C18, as stated: in the lifecycle script no upload, object listing,      *)
(* download, object deletion or bucket deletion is issued unless           *)
(* create_bucket returned True; when create_bucket returns False the       *)
(* script ends with exit code 1 after the local test file has been         *)
(* removed; and download_file and delete_object are attempted only if the  *)
(* object listing returned a non-empty list.                               *)
(* The code breaks the first part in the finally block: its cleanup calls  *)
(* delete_bucket (listing, object deletions, bucket deletion) whenever     *)
(* bucket_exists returns True, whatever create_bucket returned.            *)
(***************************************************************************)
BucketRequests ==
    {"s3.upload_file", "s3.list_objects_v2", "s3.download_file", "s3.delete_object",
     "s3.delete_bucket"}

\* Request i of the log is main's step 6 or step 7.
ObjectStep(i) ==
    \/ calls[i].op = "s3.download_file"
    \/ calls[i].op = "s3.delete_object" /\ ~InLoop(i)

CreateFailedExit ==
    (IsLifecycle /\ pc = "done" /\ created = "False" /\ intAt = "none") =>
        /\ exitCode = 1
        /\ testFile = None

ObjectStepsNeedListing ==
    IsLifecycle => \A i \in 1..Len(calls) : ObjectStep(i) => objects # <<>>

C18_Original ==
    /\ (IsLifecycle /\ created # "True") =>
            \A i \in 1..Len(calls) : calls[i].op \notin BucketRequests
    /\ CreateFailedExit
    /\ ObjectStepsNeedListing

(***************************************************************************)
(* C18, amended: unless create_bucket returned True, main's steps issue no *)
(* upload, listing, download or deletion: the only such requests are those *)
(* of the delete_bucket the cleanup in the finally block calls after its   *)
(* bucket_exists found the bucket; when create_bucket returns False the    *)
(* script (if not interrupted) ends with exit code 1 after the local test  *)
(* file has been removed; and download_file and delete_object are          *)
(* attempted by main only if the object listing returned a non-empty list. *)
(***************************************************************************)
C18_GuardedByCreate ==
    /\ (IsLifecycle /\ created # "True") =>
            \A i \in 1..Len(calls) :
                calls[i].op \in BucketRequests =>
                    /\ calls[i].op \notin {"s3.upload_file", "s3.download_file"}
                    /\ ~ObjectStep(i)
                    /\ finExists = "True"
                    /\ i > LastIdx("s3.head_bucket")
                    /\ calls[LastIdx("s3.head_bucket")].out = "ok"
    /\ CreateFailedExit
    /\ ObjectStepsNeedListing

\* C18's case: the create_bucket request was refused, nothing was uploaded,
\* and the run ended with exit code 1 and the test file removed.
C18_Witness ==
    /\ IsLifecycle
    /\ pc = "done"
    /\ created = "False"
    /\ intAt = "none"
    /\ calls[LastIdx("s3.create_bucket")].out = "BucketAlreadyExists"
    /\ Requests("s3.upload_file") = 0
    /\ exitCode = 1
    /\ testFile = None

(***************************************************************************)
(* C19, as stated: setup.py runs its stages in the order version check,    *)
(* virtual-environment creation, dependency installation, import           *)
(* verification, template copy; a failure of one of the first four ends    *)
(* the process with exit code 1 and no later stage; the installation stops *)
(* at the first package that fails; a failure of the preliminary pip       *)
(* upgrade does not abort the run.                                         *)
(* The code breaks the last part when the upgrade command cannot be        *)
(* started (.venv exists without its executables): run_command catches     *)
(* CalledProcessError only, and the OSError ends the run.                  *)
(***************************************************************************)
IsPrefix(p, q) == Len(p) <= Len(q) /\ \A i \in 1..Len(p) : p[i] = q[i]

\* Command i of this run's log did not end with exit status 0.
CommandFailed(i) == commands[i][2] # "ok"

\* The stages in order, and the run's end: after the template copy with
\* exit code 0, or with exit code 1 right after a stage that failed.
StagesInOrder ==
    /\ IsPrefix(stages, SetupStages)
    /\ spc = "done" /\ runNo >= 1 =>
            \/ setupExit = 0 /\ stages = SetupStages
            \/ /\ setupExit = 1
               /\ Len(stages) \in 1..4
               /\ \/ stages = <<"version">> /\ ~pythonOk
                  \/ commands # <<>> /\ CommandFailed(Len(commands))
    /\ setupExit = 0 => \A i \in 1..Len(commands) :
            CommandFailed(i) => commands[i][1] = "pip_upgrade"

\* A failed command other than the pip upgrade is the last one of the run.
StopsAtFirstFailure ==
    \A i \in 1..Len(commands) :
        (CommandFailed(i) /\ commands[i][1] # "pip_upgrade") =>
            /\ i = Len(commands)
            /\ spc = "done"
            /\ setupExit = 1

\* The run goes on to the first package after upgrade command i.
GoesOnAfter(i) ==
    IF i < Len(commands) THEN commands[i + 1][1] = SetupPackages[1]
    ELSE spc = "install" /\ pkgIdx = 1

RunnerEnded == rpc = "done" /\ rExit # -1

LastEvent == IF trace = <<>> THEN "none" ELSE trace[Len(trace)][1]

C20_RunnerExitCode ==
    RunnerEnded =>
        /\ rExit \in {0, 1}
        /\ ReachedSummary => rExit = 0
        /\ LastEvent = "interrupt" => rExit = 0
        /\ rExit = 1 <=> LastEvent \in {"no_examples_dir", "exception"}

\* C20's case: all three orchestrators failed and the runner ended with
\* exit code 0.
C20_Witness ==
    /\ RunnerEnded
    /\ ReachedSummary
    /\ successful = 0
    /\ outcomes = <<Exited(1), Exited(1), Exited(130)>>
    /\ rExit = 0

====
